---------------------------- MODULE Spec2Model ----------------------------
(***************************************************************************)
(* A model of autoscaler/notification.py: the Notifier that logs, posts    *)
(* to a Slack hook and sends de-duplicated direct messages to pod owners.  *)
(*                                                                         *)
(* Text is modelled as a sequence of code points (the utf-8 bytes of the   *)
(* ASCII text the program builds), so that concatenation, sorting and      *)
(* formatting are computed the way the program computes them.              *)
(***************************************************************************)
EXTENDS Naturals, Sequences, FiniteSets, TLC

(***************************************************************************)
(* Bounds of the model.  The program's cache holds 128 entries for 1800    *)
(* seconds (notification.py:62); the model keeps both parameters and       *)
(* scales them down.                                                       *)
(***************************************************************************)
maxsize == 2

ttl == 2

MaxPods == 2

\* the longest list of pods rendered by _generate_pod_string
MaxNames == 6

\* the timer runs until an entry stored at time 0 has expired
MaxTime == ttl

(***************************************************************************)
(* Text helpers.                                                           *)
(***************************************************************************)
None == <<>>

RECURSIVE Concat(_)
\* ''.join(parts)
Concat(parts) ==
    IF parts = <<>> THEN <<>> ELSE Head(parts) \o Concat(Tail(parts))

RECURSIVE Join(_, _)
\* sep.join(parts)
Join(sep, parts) ==
    IF parts = <<>> THEN <<>>
    ELSE IF Len(parts) = 1 THEN parts[1]
    ELSE parts[1] \o sep \o Join(sep, Tail(parts))

RECURSIVE StrLess(_, _)
\* a < b on Python str: code point by code point, a proper prefix is smaller
StrLess(a, b) ==
    IF b = <<>> THEN FALSE
    ELSE IF a = <<>> THEN TRUE
    ELSE IF a[1] # b[1] THEN a[1] < b[1]
    ELSE StrLess(Tail(a), Tail(b))

RECURSIVE Digits(_)
Digits(n) ==
    IF n < 10 THEN <<48 + n>> ELSE Digits(n \div 10) \o <<48 + (n % 10)>>

\* '{}'.format(n) for a non-negative int
IntStr(n) == Digits(n)

\* json.dumps(s) for a str of plain ASCII without quotes or backslashes
JsonStr(s) == <<34>> \o s \o <<34>>

\* json.dumps(d) for a dict of str -> str, given as a sequence of <<key, value>>
JsonDict(d) ==
    <<123>> \o Join(<<44, 32>>,
                    [i \in 1..Len(d) |-> JsonStr(d[i][1]) \o <<58, 32>> \o JsonStr(d[i][2])])
            \o <<125>>

\* '{}/{}'.format(pod.namespace, pod.name)
PodName(pod) == pod.namespace \o <<47>> \o pod.name

(***************************************************************************)
(* _cache_key                                                              *)
(***************************************************************************)
RECURSIVE InsertSorted(_, _)
\* insertion after every element that is not greater: a stable sort by uid
InsertSorted(pod, sorted) ==
    IF sorted = <<>> THEN <<pod>>
    ELSE IF StrLess(pod.uid, Head(sorted).uid) THEN <<pod>> \o sorted
    ELSE <<Head(sorted)>> \o InsertSorted(pod, Tail(sorted))

RECURSIVE SortedByUid(_)
\* sorted(pods, key=lambda p: p.uid)
SortedByUid(pods) ==
    IF pods = <<>> THEN <<>>
    ELSE InsertSorted(pods[Len(pods)], SortedByUid(SubSeq(pods, 1, Len(pods) - 1)))

\* the pods in the order in which _cache_key feeds their uids to the hash
UnsortedPods(pods) == pods

KeyOrder(pods) == SortedByUid(pods)

\* the bytes passed to md5.update, in order
HashInput(owner, message, pods) ==
    owner \o message \o Concat([i \in 1..Len(pods) |-> KeyOrder(pods)[i].uid])

\* md5 is taken to be free of collisions: the digest stands for its input
Md5Hex(bytes) == bytes

\* 'v0.md5.{}'.format(md5.hexdigest())
_cache_key(owner, message, pods) ==
    <<118, 48, 46, 109, 100, 53, 46>> \o Md5Hex(HashInput(owner, message, pods))

(***************************************************************************)
(* _generate_pod_string                                                    *)
(***************************************************************************)
\* the rendering that shortens a list of 5
_generate_pod_string_from_5(pods) ==
    IF Len(pods) >= 5
    THEN Join(<<44, 32>>, [i \in 1..4 |-> PodName(pods[i])])
         \o <<44, 32, 97, 110, 100, 32>> \o IntStr(Len(pods) - 4)
         \o <<32, 111, 116, 104, 101, 114, 115>>
    ELSE Join(<<44, 32>>, [i \in 1..Len(pods) |-> PodName(pods[i])])

_generate_pod_string(pods) ==
    IF Len(pods) > 5
    THEN Join(<<44, 32>>, [i \in 1..4 |-> PodName(pods[i])])
         \o <<44, 32, 97, 110, 100, 32>> \o IntStr(Len(pods) - 4)
         \o <<32, 111, 116, 104, 101, 114, 115>>
    ELSE Join(<<44, 32>>, [i \in 1..Len(pods) |-> PodName(pods[i])])

(***************************************************************************)
(* Data the operations are called with.  A pod is a record with the        *)
(* attributes the module reads: uid, namespace, name, owner (None when     *)
(* unset) and selectors (pairs of text).                                   *)
(***************************************************************************)
Pod(uid, name, owner) ==
    [uid |-> uid, namespace |-> <<100>>, name |-> name, owner |-> owner,
     selectors |-> <<>>]

podA1 == Pod(<<49>>, <<120>>, <<97>>)            \* uid '1', d/x, owner 'a'

podA2 == Pod(<<50>>, <<121>>, <<97>>)            \* uid '2', d/y, owner 'a'

podB == Pod(<<51>>, <<122>>, <<98>>)             \* uid '3', d/z, owner 'b'

podN == Pod(<<52>>, <<119>>, None)               \* uid '4', d/w, no owner

asgG == [name |-> <<103>>, region |-> <<114>>, desired_capacity |-> 10]   \* g[r]

\* the same group after it has grown by one
asgG11 == [name |-> <<103>>, region |-> <<114>>, desired_capacity |-> 11]

\* the calls the callers make: the arguments of each operation
ScaleCalls ==
    {[asg |-> asgG, units_requested |-> 1, pods |-> <<podA1>>],
     [asg |-> asgG11, units_requested |-> 2, pods |-> <<podA1>>],
     [asg |-> asgG, units_requested |-> 1, pods |-> <<podA2, podB, podA1, podN>>]}

FailedCalls == {[selectors_hash |-> <<123, 125>>, pods |-> <<podA1>>]}    \* '{}'

InvalidCalls ==
    {[pod |-> podA1, recommended_capacity |-> <<56>>],                    \* '8'
     [pod |-> podN, recommended_capacity |-> <<56>>]}

DrainCalls == {[node |-> <<110>>, pods |-> <<podB, podN, podA1>>]}        \* 'n'

\* the calls of two callers that race
RaceScaleCalls == {[asg |-> asgG, units_requested |-> 1, pods |-> <<podA1>>]}

RaceFailedCalls == FailedCalls

RaceInvalidCalls == {[pod |-> podA1, recommended_capacity |-> <<56>>]}

\* in the race every post succeeds
RacePostOutcomes == {"ok"}

Threads == {1, 2}

\* the one thread of a caller that makes its calls one after the other
Callers == {1}

\* what requests.post does: it returns a response, or raises
\* requests.exceptions.ConnectionError, or raises another RequestException
\* (Timeout stands for those: ReadTimeout, TooManyRedirects, MissingSchema...)
PostOutcomes == {"ok", "ConnectionError", "Timeout"}

IsRequestException(outcome) == outcome \in {"ConnectionError", "Timeout"}

IsConnectionError(outcome) == outcome = "ConnectionError"

VARIABLES
    hook,        \* self.hook is set
    bot_token,   \* self.bot_token is set
    cache,       \* self.cache: the entries, least recently used first
    now,         \* the timer of the cache
    pc,          \* per thread: where its notify call stands
    ev,          \* per thread: the operation called and its arguments
    msg,         \* per thread: the message argument of message_owners
    queue,       \* per thread: the items of pods_by_owner still to be handled
    out,         \* per thread: the calls its operation made to the log sink
                 \* and to the transports, in order
    used,        \* history: the fingerprints stored or hit, in order of last
                 \* use, with the expiry their last store gave them
    arg1, arg2,  \* two argument tuples of _cache_key
    key1, key2,  \* the keys computed for them
    pods_arg,    \* the argument of _generate_pod_string
    pods_string  \* the text it returns

vars == <<hook, bot_token, cache, now, pc, ev, msg, queue, out, used,
          arg1, arg2, key1, key2, pods_arg, pods_string>>

keyVars == <<arg1, arg2, key1, key2>>

stringVars == <<pods_arg, pods_string>>

notifierVars == <<hook, bot_token, cache, now, pc, ev, msg, queue, out, used>>

NoKey == <<>>

\* no text: the code point 0 is in none of the texts the program builds
NoString == <<0>>

(***************************************************************************)
(* self.cache = TTLCache(maxsize=128, ttl=60*30): insertion and lookup as  *)
(* the cachetools library performs them.  An entry is [key, expires].      *)
(***************************************************************************)
Keys(c) == {c[i].key : i \in 1..Len(c)}

Entry(c, k) == c[CHOOSE i \in 1..Len(c) : c[i].key = k]

Without(c, k) == SelectSeq(c, LAMBDA e : e.key # k)

\* TTLCache.expire(time)
Expire(c, time) == SelectSeq(c, LAMBDA e : time < e.expires)

\* key in cache and not expired
Hit(c, k, time) == k \in Keys(c) /\ time < Entry(c, k).expires

TouchRefresh(c, k) == Without(c, k) \o <<[key |-> k, expires |-> now + ttl]>>

\* a hit that also removes the entries that have expired
TouchPurge(c, k) == Expire(Without(c, k) \o <<Entry(c, k)>>, now)

\* TTLCache.__getitem__ on a hit: the entry becomes the most recently used
Touch(c, k) == Without(c, k) \o <<Entry(c, k)>>

PopNewest(c) == SubSeq(c, 1, Len(c) - 1)

\* TTLCache.popitem() after expire(): the least recently used entry goes
PopItem(c) == Tail(c)

\* a cache that evicts nothing
KeepAll(c) == c

RECURSIVE MakeRoom(_)
\* Cache.__setitem__: while currsize + size > maxsize: popitem()
MakeRoom(c) == IF Len(c) + 1 > maxsize /\ c # <<>> THEN MakeRoom(PopItem(c)) ELSE c

\* TTLCache.__setitem__(key, value) at the given time
SetItem(c, k, time) ==
    LET live == Expire(c, time)
        kept == IF k \in Keys(live) THEN Without(live, k) ELSE MakeRoom(live)
    IN  kept \o <<[key |-> k, expires |-> time + ttl]>>

(***************************************************************************)
(* struct_log: one record per pod, in the order of the pods.               *)
(***************************************************************************)
LogRecord(message, pod, extra) ==
    [api |-> "log", message |-> message, pod_name |-> PodName(pod),
     pod_id |-> pod.uid, extra |-> extra]

struct_log_if_hook(message, pods, extra) ==
    IF hook THEN [i \in 1..Len(pods) |-> LogRecord(message, pods[i], extra)] ELSE <<>>

struct_log(message, pods, extra) ==
    [i \in 1..Len(pods) |-> LogRecord(message, pods[i], extra)]

(***************************************************************************)
(* The literal texts of the messages, as code points.                      *)
(***************************************************************************)
\* 'ASG '
LIT_ASG ==
    <<65, 83, 71, 32>>

\* '] scaling up by '
LIT_SCALING_BY ==
    <<93, 32, 115, 99, 97, 108, 105, 110, 103, 32, 117, 112, 32, 98,
      121, 32>>

\* ' to new capacity '
LIT_TO_CAPACITY ==
    <<32, 116, 111, 32, 110, 101, 119, 32, 99, 97, 112, 97, 99, 105,
      116, 121, 32>>

\* 'Change triggered by '
LIT_TRIGGERED ==
    <<67, 104, 97, 110, 103, 101, 32, 116, 114, 105, 103, 103, 101,
      114, 101, 100, 32, 98, 121, 32>>

\* '] scaling up'
LIT_SCALING ==
    <<93, 32, 115, 99, 97, 108, 105, 110, 103, 32, 117, 112>>

\* 'Failed to scale '
LIT_FAILED ==
    <<70, 97, 105, 108, 101, 100, 32, 116, 111, 32, 115, 99, 97, 108,
      101, 32>>

\* ' sufficiently. Backing off...'
LIT_BACKING_OFF ==
    <<32, 115, 117, 102, 102, 105, 99, 105, 101, 110, 116, 108, 121,
      46, 32, 66, 97, 99, 107, 105, 110, 103, 32, 111, 102, 102, 46,
      46, 46>>

\* 'Pods affected: '
LIT_PODS_AFFECTED ==
    <<80, 111, 100, 115, 32, 97, 102, 102, 101, 99, 116, 101, 100, 58,
      32>>

\* 'Pending pod '
LIT_PENDING ==
    <<80, 101, 110, 100, 105, 110, 103, 32, 112, 111, 100, 32>>

\* ' cannot fit '
LIT_CANNOT_FIT ==
    <<32, 99, 97, 110, 110, 111, 116, 32, 102, 105, 116, 32>>

\* '. Please check that requested resource amount is consistent with node selectors (recommended max: '
LIT_PLEASE_CHECK ==
    <<46, 32, 80, 108, 101, 97, 115, 101, 32, 99, 104, 101, 99, 107,
      32, 116, 104, 97, 116, 32, 114, 101, 113, 117, 101, 115, 116,
      101, 100, 32, 114, 101, 115, 111, 117, 114, 99, 101, 32, 97,
      109, 111, 117, 110, 116, 32, 105, 115, 32, 99, 111, 110, 115,
      105, 115, 116, 101, 110, 116, 32, 119, 105, 116, 104, 32, 110,
      111, 100, 101, 32, 115, 101, 108, 101, 99, 116, 111, 114, 115,
      32, 40, 114, 101, 99, 111, 109, 109, 101, 110, 100, 101, 100,
      32, 109, 97, 120, 58, 32>>

\* '). Scheduling skipped.'
LIT_SKIPPED ==
    <<41, 46, 32, 83, 99, 104, 101, 100, 117, 108, 105, 110, 103, 32,
      115, 107, 105, 112, 112, 101, 100, 46>>

\* 'Node '
LIT_NODE ==
    <<78, 111, 100, 101, 32>>

\* ' drained.'
LIT_DRAINED ==
    <<32, 100, 114, 97, 105, 110, 101, 100, 46>>

\* 'Pod affected: '
LIT_POD_AFFECTED ==
    <<80, 111, 100, 32, 97, 102, 102, 101, 99, 116, 101, 100, 58, 32>>

(***************************************************************************)
(* The texts the operations build.                                         *)
(***************************************************************************)
\* 'ASG {}[{}] scaling up by {} to new capacity {}' '\n' 'Change triggered by {}'
ScaleMessage(asg, units_requested, pods) ==
    LIT_ASG \o asg.name \o <<91>> \o asg.region
    \o LIT_SCALING_BY \o IntStr(units_requested)
    \o LIT_TO_CAPACITY \o IntStr(asg.desired_capacity)
    \o <<10>> \o LIT_TRIGGERED \o _generate_pod_string(pods)

\* an owner message that tells the new capacity
ScaleOwnerMessageToCapacity(asg) ==
    LIT_ASG \o asg.name \o <<91>> \o asg.region \o LIT_SCALING
    \o LIT_TO_CAPACITY \o IntStr(asg.desired_capacity)

\* 'ASG {}[{}] scaling up'
ScaleOwnerMessage(asg) ==
    LIT_ASG \o asg.name \o <<91>> \o asg.region \o LIT_SCALING

\* 'Failed to scale {} sufficiently. Backing off...'
FailedMainMessage(selectors_hash) ==
    LIT_FAILED \o JsonStr(selectors_hash) \o LIT_BACKING_OFF

\* main_message + '\n' + 'Pods affected: {}'
FailedMessage(selectors_hash, pods) ==
    FailedMainMessage(selectors_hash) \o <<10>> \o LIT_PODS_AFFECTED
    \o _generate_pod_string(pods)

\* 'Pending pod {}/{} cannot fit {}. Please check ... (recommended max: {}). Scheduling skipped.'
InvalidMessage(pod, recommended_capacity) ==
    LIT_PENDING \o pod.namespace \o <<47>> \o pod.name \o LIT_CANNOT_FIT
    \o JsonDict(pod.selectors) \o LIT_PLEASE_CHECK \o recommended_capacity
    \o LIT_SKIPPED

\* 'Node {} drained.' '\n' 'Pod affected: {}'
DrainMessage(node, pods) ==
    LIT_NODE \o node \o LIT_DRAINED \o <<10>> \o LIT_POD_AFFECTED
    \o _generate_pod_string(pods)

\* the 'text' of the attachment message_owner sends
AttachmentText(pods) == Join(<<44, 32>>, [i \in 1..Len(pods) |-> PodName(pods[i])])

(***************************************************************************)
(* The state after Notifier(hook, bot_token): an empty cache, no call in   *)
(* progress.                                                               *)
(***************************************************************************)
NoEvent == [kind |-> "none"]

NotifierInit ==
    /\ hook \in BOOLEAN
    /\ bot_token \in BOOLEAN
    /\ cache = <<>>
    /\ now = 0
    /\ pc = [t \in Threads |-> "idle"]
    /\ ev = [t \in Threads |-> NoEvent]
    /\ msg = [t \in Threads |-> None]
    /\ queue = [t \in Threads |-> <<>>]
    /\ out = [t \in Threads |-> <<>>]
    /\ used = <<>>

(***************************************************************************)
(* message_owners: the pods that have an owner, grouped by owner in the    *)
(* order in which the owners first appear.                                 *)
(***************************************************************************)
RECURSIVE GroupAll(_, _)
GroupAll(pods, acc) ==
    IF pods = <<>> THEN acc
    ELSE LET pod == Head(pods)
             at == {i \in 1..Len(acc) : acc[i].owner = pod.owner}
         IN  IF at = {}
             THEN GroupAll(Tail(pods), Append(acc, [owner |-> pod.owner, pods |-> <<pod>>]))
             ELSE GroupAll(Tail(pods),
                           [acc EXCEPT ![CHOOSE i \in at : TRUE].pods = Append(@, pod)])

RECURSIVE GroupOwned(_, _)
\* for pod in pods: if pod.owner: pods_by_owner.setdefault(pod.owner, []).append(pod)
GroupOwned(pods, acc) ==
    IF pods = <<>> THEN acc
    ELSE LET pod == Head(pods)
             at == {i \in 1..Len(acc) : acc[i].owner = pod.owner}
         IN  IF pod.owner = None THEN GroupOwned(Tail(pods), acc)
             ELSE IF at = {}
             THEN GroupOwned(Tail(pods), Append(acc, [owner |-> pod.owner, pods |-> <<pod>>]))
             ELSE GroupOwned(Tail(pods),
                             [acc EXCEPT ![CHOOSE i \in at : TRUE].pods = Append(@, pod)])

PodsByAnyOwner(pods) == GroupAll(pods, <<>>)

\* every pod that has an owner in a batch of its own
PodsEachAlone(pods) ==
    LET owned == SelectSeq(pods, LAMBDA pod : pod.owner # None)
    IN  [i \in 1..Len(owned) |-> [owner |-> owned[i].owner, pods |-> <<owned[i]>>]]

PodsByOwner(pods) == GroupOwned(pods, <<>>)

\* the calls of message_owner that message_owners(message, pods) goes on to make
OwnerBatches(pods) == IF ~bot_token THEN <<>> ELSE PodsByOwner(pods)

(***************************************************************************)
(* The ends of a notify operation: it returns or raises at once, or it     *)
(* enters message_owners.                                                  *)
(***************************************************************************)
Leave(t, e, made, how) ==
    /\ pc' = [pc EXCEPT ![t] = how]
    /\ ev' = [ev EXCEPT ![t] = e]
    /\ out' = [out EXCEPT ![t] = made]
    /\ UNCHANGED <<msg, queue>>

message_owners(t, e, made, message, pods) ==
    LET batches == OwnerBatches(pods)
    IN  /\ pc' = [pc EXCEPT ![t] = IF batches = <<>> THEN "returned" ELSE "lookup"]
        /\ ev' = [ev EXCEPT ![t] = e]
        /\ out' = [out EXCEPT ![t] = made]
        /\ msg' = [msg EXCEPT ![t] = message]
        /\ queue' = [queue EXCEPT ![t] = batches]

\* requests.post(self.hook, json={"text": message, ...})
HookPost(message, outcome) == [api |-> "hook", text |-> message, outcome |-> outcome]

\* a hook post without a handler
HookCatchesNothing(outcome) == FALSE

\* except requests.exceptions.ConnectionError
HookCatches(outcome) == IsConnectionError(outcome)

(***************************************************************************)
(* The four notify operations, each up to the point where it returns,      *)
(* raises or reaches the first cache lookup of message_owner.              *)
(***************************************************************************)
notify_scale(t, calls, outcomes) ==
    /\ pc[t] = "idle"
    /\ \E call \in calls :
         LET asg == call.asg
             units_requested == call.units_requested
             pods == call.pods
             e == [kind |-> "scale", asg |-> asg, units_requested |-> units_requested,
                   pods |-> pods]
             logged == struct_log("scale", pods,
                                  [asg |-> asg, units_requested |-> units_requested])
         IN  IF ~hook THEN Leave(t, e, logged, "returned")
             ELSE \E outcome \in outcomes :
                    LET made == Append(logged,
                                       HookPost(ScaleMessage(asg, units_requested, pods), outcome))
                    IN  IF outcome # "ok" /\ ~HookCatches(outcome)
                        THEN Leave(t, e, made, "raised")
                        ELSE message_owners(t, e, made, ScaleOwnerMessage(asg), pods)
    /\ UNCHANGED <<hook, bot_token, cache, now, used, keyVars, stringVars>>

notify_failed_to_scale(t, calls, outcomes) ==
    /\ pc[t] = "idle"
    /\ \E call \in calls :
         LET selectors_hash == call.selectors_hash
             pods == call.pods
             e == [kind |-> "failed", selectors_hash |-> selectors_hash, pods |-> pods]
             logged == struct_log("failed to scale", pods,
                                  [selectors_hash |-> selectors_hash])
         IN  IF ~hook THEN Leave(t, e, logged, "returned")
             ELSE \E outcome \in outcomes :
                    LET made == Append(logged,
                                       HookPost(FailedMessage(selectors_hash, pods), outcome))
                    IN  IF outcome # "ok" /\ ~HookCatches(outcome)
                        THEN Leave(t, e, made, "raised")
                        ELSE message_owners(t, e, made, FailedMainMessage(selectors_hash), pods)
    /\ UNCHANGED <<hook, bot_token, cache, now, used, keyVars, stringVars>>

\* the operation handing the pod to message_owners twice over
notify_invalid_pod_capacity_pair(t, calls, outcomes) ==
    /\ pc[t] = "idle"
    /\ \E call \in calls :
         LET pod == call.pod
             recommended_capacity == call.recommended_capacity
             e == [kind |-> "invalid", pod |-> pod,
                   recommended_capacity |-> recommended_capacity, pods |-> <<pod>>]
             message == InvalidMessage(pod, recommended_capacity)
             logged == struct_log("invalid pod capacity", <<pod>>,
                                  [recommended_capacity |-> recommended_capacity])
         IN  IF ~hook THEN Leave(t, e, logged, "returned")
             ELSE \E outcome \in outcomes :
                    LET made == Append(logged, HookPost(message, outcome))
                    IN  IF outcome # "ok" /\ ~HookCatches(outcome)
                        THEN Leave(t, e, made, "raised")
                        ELSE message_owners(t, e, made, message, <<pod, pod>>)
    /\ UNCHANGED <<hook, bot_token, cache, now, used, keyVars, stringVars>>

notify_invalid_pod_capacity(t, calls, outcomes) ==
    /\ pc[t] = "idle"
    /\ \E call \in calls :
         LET pod == call.pod
             recommended_capacity == call.recommended_capacity
             e == [kind |-> "invalid", pod |-> pod,
                   recommended_capacity |-> recommended_capacity, pods |-> <<pod>>]
             message == InvalidMessage(pod, recommended_capacity)
             logged == struct_log("invalid pod capacity", <<pod>>,
                                  [recommended_capacity |-> recommended_capacity])
         IN  IF ~hook THEN Leave(t, e, logged, "returned")
             ELSE \E outcome \in outcomes :
                    LET made == Append(logged, HookPost(message, outcome))
                    IN  IF outcome # "ok" /\ ~HookCatches(outcome)
                        THEN Leave(t, e, made, "raised")
                        ELSE message_owners(t, e, made, message, <<pod>>)
    /\ UNCHANGED <<hook, bot_token, cache, now, used, keyVars, stringVars>>

notify_drained_node_and_owners(t, calls, outcomes) ==
    /\ pc[t] = "idle"
    /\ \E call \in calls :
         LET node == call.node
             pods == call.pods
             e == [kind |-> "drain", node |-> node, pods |-> pods]
             logged == struct_log("drain", pods, [node |-> node])
         IN  IF ~hook THEN Leave(t, e, logged, "returned")
             ELSE \E outcome \in outcomes :
                    LET made == Append(logged, HookPost(DrainMessage(node, pods), outcome))
                    IN  IF outcome # "ok" /\ ~HookCatches(outcome)
                        THEN Leave(t, e, made, "raised")
                        ELSE message_owners(t, e, made, DrainMessage(node, pods), pods)
    /\ UNCHANGED <<hook, bot_token, cache, now, used, keyVars, stringVars>>

notify_drained_node(t, calls, outcomes) ==
    /\ pc[t] = "idle"
    /\ \E call \in calls :
         LET node == call.node
             pods == call.pods
             e == [kind |-> "drain", node |-> node, pods |-> pods]
             logged == struct_log("drain", pods, [node |-> node])
         IN  IF ~hook THEN Leave(t, e, logged, "returned")
             ELSE \E outcome \in outcomes :
                    LET made == Append(logged, HookPost(DrainMessage(node, pods), outcome))
                    IN  IF outcome # "ok" /\ ~HookCatches(outcome)
                        THEN Leave(t, e, made, "raised")
                        ELSE Leave(t, e, made, "returned")
    /\ UNCHANGED <<hook, bot_token, cache, now, used, keyVars, stringVars>>

(***************************************************************************)
(* message_owner under @cachedmethod(attrgetter('cache'), key=_cache_key): *)
(* the wrapper looks the key up; on a miss it calls the method, which      *)
(* posts the direct message, and then stores the result under the key.     *)
(* The decorator is given no lock, so the three steps of one thread        *)
(* interleave with the steps of the others.                                *)
(***************************************************************************)
Batch(t) == Head(queue[t])

KeyOf(t) == _cache_key(Batch(t).owner, msg[t], Batch(t).pods)

\* the fingerprints other than k used since the last use of k
OthersSince(u, k) == Len(u) - (CHOOSE i \in 1..Len(u) : u[i].key = k)

\* a call of the wrapped message_owner, with what its lookup found:
\*   hit       the cache held the key, not expired
\*   expired   the cache held the key, expired
\*   recorded  a send for the key was stored less than ttl ago
\*   others    the number of other fingerprints used since (when recorded)
\*   units     the units_requested of the scale event that stored it (when
\*             recorded; 0 for another event)
OwnerCall(t, hit) ==
    [api |-> "message_owner", owner |-> Batch(t).owner, message |-> msg[t],
     pods |-> Batch(t).pods, key |-> KeyOf(t), hit |-> hit,
     expired |-> KeyOf(t) \in Keys(cache) /\ ~Hit(cache, KeyOf(t), now),
     recorded |-> Hit(used, KeyOf(t), now),
     others |-> IF Hit(used, KeyOf(t), now) THEN OthersSince(used, KeyOf(t)) ELSE 0,
     units |-> IF Hit(used, KeyOf(t), now) THEN Entry(used, KeyOf(t)).units ELSE 0]

\* requests.post(self.MESSAGE_URL, data={"text": message, "channel": "@owner", ...})
\* as the transport sees it, with the time of the post and whether it failed
DirectPost(t, outcome) ==
    [api |-> "direct", channel |-> <<64>> \o Batch(t).owner, text |-> msg[t],
     attachments |-> AttachmentText(Batch(t).pods), key |-> KeyOf(t),
     failed |-> outcome # "ok", at |-> now]

\* a direct post without a handler
DirectCatchesNothing(outcome) == FALSE

\* except requests.exceptions.RequestException
DirectCatches(outcome) == IsRequestException(outcome)

\* the loop of message_owners moves on to the next owner
NextOwner(t) ==
    /\ queue' = [queue EXCEPT ![t] = Tail(@)]
    /\ pc' = [pc EXCEPT ![t] = IF Tail(queue[t]) = <<>> THEN "returned" ELSE "lookup"]

RECURSIVE Forget(_, _)
\* the history without the expired fingerprints that no live one precedes
Forget(u, time) ==
    IF u # <<>> /\ ~(time < Head(u).expires) THEN Forget(Tail(u), time) ELSE u

\* the history of uses: the fingerprints in the order of their last use
\* (store or hit), each with the expiry its last store gave it and the
\* units_requested of the scale event that stored it (0 for another event)
UsedHit(u, k, time) ==
    IF k \in Keys(u) THEN Forget(Without(u, k) \o <<Entry(u, k)>>, time) ELSE u

UsedStore(u, k, time, units) ==
    Forget(Without(u, k) \o <<[key |-> k, expires |-> time + ttl, units |-> units]>>, time)

\* the units_requested of the event of thread t
UnitsOf(t) == IF ev[t].kind = "scale" THEN ev[t].units_requested ELSE 0

\* k = key(self, owner, message, pods); try: return c[k]; except KeyError: pass
Lookup(t) ==
    /\ pc[t] = "lookup"
    /\ IF Hit(cache, KeyOf(t), now)
       THEN /\ cache' = Touch(cache, KeyOf(t))
            /\ used' = UsedHit(used, KeyOf(t), now)
            /\ out' = [out EXCEPT ![t] = Append(@, OwnerCall(t, TRUE))]
            /\ NextOwner(t)
       ELSE /\ pc' = [pc EXCEPT ![t] = "send"]
            /\ out' = [out EXCEPT ![t] = Append(@, OwnerCall(t, FALSE))]
            /\ UNCHANGED <<cache, used, queue>>
    /\ UNCHANGED <<hook, bot_token, now, ev, msg, keyVars, stringVars>>

\* v = method(self, owner, message, pods): the body of message_owner
Send(t, outcomes) ==
    /\ pc[t] = "send"
    /\ \E outcome \in outcomes :
         /\ out' = [out EXCEPT ![t] = Append(@, DirectPost(t, outcome))]
         /\ pc' = [pc EXCEPT ![t] =
                     IF outcome = "ok" \/ DirectCatches(outcome) THEN "store" ELSE "raised"]
    /\ UNCHANGED <<hook, bot_token, cache, now, ev, msg, queue, used, keyVars, stringVars>>

\* c[k] = v
Store(t) ==
    /\ pc[t] = "store"
    /\ cache' = SetItem(cache, KeyOf(t), now)
    /\ used' = UsedStore(used, KeyOf(t), now, UnitsOf(t))
    /\ NextOwner(t)
    /\ UNCHANGED <<hook, bot_token, now, ev, msg, out, keyVars, stringVars>>

\* the caller has its result; the thread is free for the next call
Return(t) ==
    /\ pc[t] \in {"returned", "raised"}
    /\ pc' = [pc EXCEPT ![t] = "idle"]
    /\ ev' = [ev EXCEPT ![t] = NoEvent]
    /\ msg' = [msg EXCEPT ![t] = None]
    /\ queue' = [queue EXCEPT ![t] = <<>>]
    /\ out' = [out EXCEPT ![t] = <<>>]
    /\ UNCHANGED <<hook, bot_token, cache, now, used, keyVars, stringVars>>

\* the timer of the cache advances
Tick ==
    /\ now < MaxTime
    /\ now' = now + 1
    /\ used' = Forget(used, now + 1)
    /\ UNCHANGED <<hook, bot_token, cache, pc, ev, msg, queue, out, keyVars, stringVars>>

Init ==
    /\ NotifierInit
    /\ arg1 = None /\ arg2 = None /\ key1 = NoKey /\ key2 = NoKey
    /\ pods_arg = <<>> /\ pods_string = NoString

\* one caller, one call at a time
Next ==
    \/ \E t \in Callers : notify_scale(t, ScaleCalls, PostOutcomes)
    \/ \E t \in Callers : notify_failed_to_scale(t, FailedCalls, PostOutcomes)
    \/ \E t \in Callers : notify_invalid_pod_capacity(t, InvalidCalls, PostOutcomes)
    \/ \E t \in Callers : notify_drained_node(t, DrainCalls, PostOutcomes)
    \/ \E t \in Callers : Lookup(t)
    \/ \E t \in Callers : Send(t, PostOutcomes)
    \/ \E t \in Callers : Store(t)
    \/ \E t \in Callers : Return(t)
    \/ Tick

Spec == Init /\ [][Next]_vars

\* the threads of the orchestration loop call concurrently; the calls are
\* single-pod calls with three fingerprints, and every post succeeds
RaceNext ==
    \/ \E t \in Threads : notify_scale(t, RaceScaleCalls, RacePostOutcomes)
    \/ \E t \in Threads : notify_failed_to_scale(t, RaceFailedCalls, RacePostOutcomes)
    \/ \E t \in Threads : notify_invalid_pod_capacity(t, RaceInvalidCalls, RacePostOutcomes)
    \/ \E t \in Threads : Lookup(t)
    \/ \E t \in Threads : Send(t, RacePostOutcomes)
    \/ \E t \in Threads : Store(t)
    \/ \E t \in Threads : Return(t)
    \/ Tick

RaceSpec == Init /\ [][RaceNext]_vars

(***************************************************************************)
(* _cache_key as a function of its arguments: two argument tuples are      *)
(* drawn from bounded sets and the key of each is computed.                *)
(***************************************************************************)
KeyOwners == {<<97>>, <<97, 98>>}                \* 'a', 'ab'

KeyMessages == {<<109>>, <<98, 109>>}            \* 'm', 'bm'

KeyUids == {<<49>>, <<50>>, <<49, 50>>}          \* '1', '2', '12'

KeyPods == {Pod(uid, <<112>>, <<97>>) : uid \in KeyUids}

\* message_owners passes no empty list of pods
KeyPodLists == UNION {[1..n -> KeyPods] : n \in 1..MaxPods}

KeyArgs == [owner : KeyOwners, message : KeyMessages, pods : KeyPodLists]

KeyInit ==
    /\ arg1 \in KeyArgs
    /\ arg2 \in KeyArgs
    /\ key1 = NoKey
    /\ key2 = NoKey
    /\ pods_arg = <<>> /\ pods_string = NoString
    /\ hook = FALSE /\ bot_token = FALSE /\ cache = <<>> /\ now = 0
    /\ pc = [t \in Threads |-> "idle"]
    /\ ev = [t \in Threads |-> NoEvent]
    /\ msg = [t \in Threads |-> None]
    /\ queue = [t \in Threads |-> <<>>]
    /\ out = [t \in Threads |-> <<>>]
    /\ used = <<>>

CacheKey1 ==
    /\ key1 = NoKey
    /\ key1' = _cache_key(arg1.owner, arg1.message, arg1.pods)
    /\ UNCHANGED <<arg1, arg2, key2, notifierVars, stringVars>>

CacheKey2 ==
    /\ key2 = NoKey
    /\ key2' = _cache_key(arg2.owner, arg2.message, arg2.pods)
    /\ UNCHANGED <<arg1, arg2, key1, notifierVars, stringVars>>

KeyNext == CacheKey1 \/ CacheKey2

KeySpec == KeyInit /\ [][KeyNext]_vars

(***************************************************************************)
(* _generate_pod_string as a function of its argument: a list of pods is   *)
(* drawn from the lists of up to MaxNames pods and rendered.               *)
(***************************************************************************)
StringPods == {podA1, podB}

StringPodLists == UNION {[1..n -> StringPods] : n \in 0..MaxNames}

StringInit ==
    /\ pods_arg \in StringPodLists
    /\ pods_string = NoString
    /\ arg1 = None /\ arg2 = None /\ key1 = NoKey /\ key2 = NoKey
    /\ hook = FALSE /\ bot_token = FALSE /\ cache = <<>> /\ now = 0
    /\ pc = [t \in Threads |-> "idle"]
    /\ ev = [t \in Threads |-> NoEvent]
    /\ msg = [t \in Threads |-> None]
    /\ queue = [t \in Threads |-> <<>>]
    /\ out = [t \in Threads |-> <<>>]
    /\ used = <<>>

GeneratePodString ==
    /\ pods_string = NoString
    /\ pods_string' = _generate_pod_string(pods_arg)
    /\ UNCHANGED <<pods_arg, keyVars, notifierVars>>

StringNext == GeneratePodString

StringSpec == StringInit /\ [][StringNext]_vars

(***************************************************************************)
(* Properties of _cache_key (checked under KeySpec).                       *)
(***************************************************************************)
Uids(pods) == {pods[i].uid : i \in 1..Len(pods)}

Count(pods, uid) == Cardinality({i \in 1..Len(pods) : pods[i].uid = uid})

\* q holds the pods of p in some order
IsPermutation(p, q) ==
    /\ Len(p) = Len(q)
    /\ \A uid \in Uids(p) \cup Uids(q) : Count(p, uid) = Count(q, uid)

BothKeys == key1 # NoKey /\ key2 # NoKey

\* C5: for the same owner and the same message, two sequences of pods that
\* are permutations of each other have the same key.
C5_KeyOrderIndependent ==
    (/\ BothKeys
     /\ arg1.owner = arg2.owner
     /\ arg1.message = arg2.message
     /\ IsPermutation(arg1.pods, arg2.pods))
    => key1 = key2

\* two different orders of the same two or more pods have been keyed
C5_Witness ==
    /\ BothKeys
    /\ arg1.owner = arg2.owner
    /\ arg1.message = arg2.message
    /\ IsPermutation(arg1.pods, arg2.pods)
    /\ arg1.pods # arg2.pods
    /\ Len(arg1.pods) >= 2
    /\ key1 = key2

\* C6: for the same owner and the same message, two sequences of pods with
\* the same set of uids have the same key, also when one repeats a uid.
C6_KeyIgnoresDuplicates ==
    (/\ BothKeys
     /\ arg1.owner = arg2.owner
     /\ arg1.message = arg2.message
     /\ Uids(arg1.pods) = Uids(arg2.pods))
    => key1 = key2

\* C7: two tuples that differ in the owner, in the message or in the set of
\* uids feed different bytes to the hash and so have different keys.
C7_KeysDistinct ==
    (/\ BothKeys
     /\ \/ arg1.owner # arg2.owner
        \/ arg1.message # arg2.message
        \/ Uids(arg1.pods) # Uids(arg2.pods))
    => /\ HashInput(arg1.owner, arg1.message, arg1.pods)
            # HashInput(arg2.owner, arg2.message, arg2.pods)
       /\ key1 # key2

(***************************************************************************)
(* Properties of the Notifier.                                             *)
(***************************************************************************)
Calls(t, api) == SelectSeq(out[t], LAMBDA r : r.api = api)

Range(seq) == {seq[i] : i \in 1..Len(seq)}

\* thread t takes the lookup step of a message_owner call
LookupStep(t) == pc[t] = "lookup" /\ out'[t] # out[t]

\* thread t takes the store step of a message_owner call
StoreStep(t) == pc[t] = "store" /\ pc'[t] # "store"

\* C1 as stated: a call whose fingerprint was sent and stored less than ttl
\* ago is suppressed, whatever other fingerprints were used in between.
C1_AtMostOncePerWindow ==
    \A t \in Threads : \A r \in Range(Calls(t, "message_owner")) :
        r.recorded => r.hit

\* C1 as amended: a call whose fingerprint was sent and stored less than ttl
\* ago is suppressed if fewer than maxsize other fingerprints were stored or
\* hit in between.
C1_AtMostOnceWithinCapacity ==
    \A t \in Threads : \A r \in Range(Calls(t, "message_owner")) :
        (r.recorded /\ r.others < maxsize) => r.hit

\* a call was suppressed although maxsize - 1 other fingerprints had been
\* used since its fingerprint was stored
C1_Witness ==
    \E t \in Threads : \E r \in Range(Calls(t, "message_owner")) :
        r.recorded /\ r.others = maxsize - 1 /\ r.hit

\* C2: two threads never both stand between the send and the store of the
\* same fingerprint with sends made at the same time: of the callers that
\* race on a fingerprint, one sends.
C2_OneSenderPerRace ==
    \A t1, t2 \in Threads :
        (/\ t1 # t2
         /\ pc[t1] = "store" /\ pc[t2] = "store"
         /\ KeyOf(t1) = KeyOf(t2))
        => out[t1][Len(out[t1])].at # out[t2][Len(out[t2])].at

\* C3: no notify operation raises to its caller.
C3_NeverRaises == \A t \in Threads : pc[t] # "raised"

\* C4: a hit leaves the expiry of the entry as it was; a lookup that finds
\* the entry expired goes on to send; the store that follows a send gives
\* the entry the expiry now + ttl.
C4_FixedWindow ==
    [][\A t \in Threads :
         /\ (LookupStep(t) /\ Hit(cache, KeyOf(t), now))
            => /\ KeyOf(t) \in Keys(cache')
               /\ Entry(cache', KeyOf(t)).expires = Entry(cache, KeyOf(t)).expires
         /\ (LookupStep(t) /\ KeyOf(t) \in Keys(cache) /\ ~Hit(cache, KeyOf(t), now))
            => pc'[t] = "send"
         /\ StoreStep(t)
            => /\ KeyOf(t) \in Keys(cache')
               /\ Entry(cache', KeyOf(t)).expires = now + ttl]_vars

\* a call found its fingerprint expired after an earlier call had hit it,
\* sent again, and the fingerprint is in its new window
C4_Witness ==
    \E t \in Threads : \E r \in Range(Calls(t, "message_owner")) :
        /\ r.expired /\ ~r.hit
        /\ pc[t] = "returned"
        /\ Calls(t, "direct") # <<>>
        /\ Hit(cache, r.key, now)
        /\ Entry(cache, r.key).expires = Calls(t, "direct")[1].at + ttl

\* C8: an operation in progress or finished has emitted, before anything
\* else, exactly one log record per pod of its event, in the order of the
\* pods, whether or not the hook and the bot token are set.
C8_LogPerUnitFirst ==
    \A t \in Threads :
        pc[t] # "idle" =>
            LET n == Len(ev[t].pods)
            IN  /\ Len(out[t]) >= n
                /\ \A i \in 1..n :
                     /\ out[t][i].api = "log"
                     /\ out[t][i].pod_id = ev[t].pods[i].uid
                     /\ out[t][i].pod_name = PodName(ev[t].pods[i])
                /\ \A i \in (n + 1)..Len(out[t]) : out[t][i].api # "log"

\* an operation on several pods raised from its hook post, its records emitted
C8_Witness ==
    \E t \in Threads :
        /\ pc[t] = "raised"
        /\ Len(ev[t].pods) > 1
        /\ Len(Calls(t, "log")) = Len(ev[t].pods)
        /\ Len(Calls(t, "hook")) = 1

\* the thread t takes a step
Steps(t) == pc'[t] # pc[t] \/ out'[t] # out[t]

\* C9: a drain makes no call of message_owner and no direct post, makes at
\* most one hook post, and no step of it changes the cache.
C9_DrainLogsAndBroadcastsOnly ==
    /\ [](\A t \in Threads :
            ev[t].kind = "drain" =>
                /\ pc[t] \in {"returned", "raised"}
                /\ queue[t] = <<>>
                /\ Calls(t, "message_owner") = <<>>
                /\ Calls(t, "direct") = <<>>
                /\ Len(Calls(t, "hook")) <= 1)
    /\ [][\A t \in Threads :
            (Steps(t) /\ (ev[t].kind = "drain" \/ ev'[t].kind = "drain"))
            => cache' = cache]_vars

\* a drain of pods that have owners returned after its hook post, with the
\* bot token set
C9_Witness ==
    \E t \in Threads :
        /\ ev[t].kind = "drain"
        /\ pc[t] = "returned"
        /\ hook /\ bot_token
        /\ \E i \in 1..Len(ev[t].pods) : ev[t].pods[i].owner # None
        /\ Len(Calls(t, "hook")) = 1

\* the batch has an owner and holds pods of that owner only
OwnedBatch(owner, pods) ==
    /\ owner # None
    /\ pods # <<>>
    /\ \A i \in 1..Len(pods) : pods[i].owner = owner

\* C10: every call of message_owner made or still to be made has an owner
\* and pods of that owner only, and an event whose pods all lack an owner
\* leads to no call of message_owner.
C10_NoOwnerExcluded ==
    \A t \in Threads :
        /\ \A r \in Range(Calls(t, "message_owner")) : OwnedBatch(r.owner, r.pods)
        /\ \A b \in Range(queue[t]) : OwnedBatch(b.owner, b.pods)
        /\ (ev[t].kind # "none" /\ \A i \in 1..Len(ev[t].pods) : ev[t].pods[i].owner = None)
           => Calls(t, "message_owner") = <<>> /\ queue[t] = <<>>

\* an event with a pod without owner among pods with owners went through
\* message_owners: a call of message_owner for each of its two owners
C10_Witness ==
    \E t \in Threads :
        /\ pc[t] = "returned"
        /\ ev[t].kind # "none"
        /\ \E i \in 1..Len(ev[t].pods) : ev[t].pods[i].owner = None
        /\ Len(Calls(t, "message_owner")) = 2

\* the place of the fingerprint k in the order of last use
UsedAt(k) == CHOOSE i \in 1..Len(used) : used[i].key = k

\* of the fingerprints ks, the one whose last use (store or hit) is the oldest
LeastRecentlyUsed(ks) == CHOOSE k \in ks : \A k2 \in ks : UsedAt(k) <= UsedAt(k2)

\* C12: the cache never holds more than maxsize entries, and the store of a
\* new fingerprint into a cache that holds maxsize live entries removes the
\* least recently used of them and no other.
C12_BoundedLRU ==
    /\ [](Len(cache) <= maxsize)
    /\ [][\A t \in Threads :
            LET live == Keys(Expire(cache, now))
            IN  (StoreStep(t) /\ KeyOf(t) \notin live /\ Cardinality(live) = maxsize)
                => /\ live \subseteq Keys(used)
                   /\ Keys(cache') = (live \ {LeastRecentlyUsed(live)}) \cup {KeyOf(t)}]_vars

\* the cache is full and a fingerprint stored less than ttl ago is no longer
\* in it: a store has evicted it
C12_Witness ==
    /\ Len(cache) = maxsize
    /\ \E k \in Keys(Expire(used, now)) : k \notin Keys(cache)

\* C13: an invalid-capacity event leads to at most one call of message_owner
\* and at most one direct post, for the owner of its pod, with the key of
\* that owner, the event's message and that one pod; if the pod has no
\* owner it leads to none.
C13_InvalidSingleUnit ==
    \A t \in Threads :
        ev[t].kind = "invalid" =>
            LET pod == ev[t].pod
                key == _cache_key(pod.owner,
                                  InvalidMessage(pod, ev[t].recommended_capacity), <<pod>>)
            IN  /\ Len(Calls(t, "message_owner")) <= 1
                /\ Len(queue[t]) <= 1
                /\ (Calls(t, "message_owner") # <<>> /\ queue[t] # <<>>)
                   => pc[t] \in {"send", "store"}
                /\ Len(Calls(t, "direct")) <= 1
                /\ \A r \in Range(Calls(t, "message_owner")) :
                     r.owner = pod.owner /\ r.pods = <<pod>> /\ r.key = key
                /\ \A b \in Range(queue[t]) : b.owner = pod.owner /\ b.pods = <<pod>>
                /\ \A d \in Range(Calls(t, "direct")) :
                     /\ d.channel = <<64>> \o pod.owner
                     /\ d.key = key
                     /\ d.attachments = PodName(pod)
                /\ pod.owner = None
                   => Calls(t, "message_owner") = <<>> /\ Calls(t, "direct") = <<>>
                      /\ queue[t] = <<>>

\* an invalid-capacity event for a pod with an owner has returned after its
\* one direct post
C13_Witness ==
    \E t \in Threads :
        /\ ev[t].kind = "invalid"
        /\ pc[t] = "returned"
        /\ ev[t].pod.owner # None
        /\ Len(Calls(t, "direct")) = 1

\* the event of thread t is one of those that message their owners
OwnerActionable(t) == ev[t].kind \in {"scale", "failed", "invalid"}

\* the owners of the pods of the event of thread t
EventOwners(t) == {ev[t].pods[i].owner : i \in 1..Len(ev[t].pods)} \ {None}

\* C14: an owner-actionable event handled without a hook and with the bot
\* token set has, when it returns, made a call of message_owner for each
\* owner of its pods.
C14_OwnersRunWithoutHook ==
    \A t \in Threads :
        (/\ OwnerActionable(t)
         /\ ~hook /\ bot_token
         /\ pc[t] = "returned")
        => \A owner \in EventOwners(t) :
             \E r \in Range(Calls(t, "message_owner")) : r.owner = owner

\* the last call thread t made
LastCall(t) == out[t][Len(out[t])]

\* thread t has just left a message_owner call whose direct post failed
AfterFailedSend(t) ==
    /\ pc[t] \in {"lookup", "returned"}
    /\ out[t] # <<>>
    /\ LastCall(t).api = "direct"
    /\ LastCall(t).failed

\* C15: when a message_owner call whose direct post failed has ended, the
\* cache holds no live entry for its fingerprint.
C15_FailedSendNotCached ==
    \A t \in Callers :
        AfterFailedSend(t) => ~Hit(cache, LastCall(t).key, now)

\* the batches message_owner has been called with by thread t, in order
Handled(t) ==
    [i \in 1..Len(Calls(t, "message_owner")) |->
        [owner |-> Calls(t, "message_owner")[i].owner,
         pods |-> Calls(t, "message_owner")[i].pods]]

\* the batches message_owner is still to be called with by thread t
Pending(t) == IF pc[t] \in {"send", "store"} THEN Tail(queue[t]) ELSE queue[t]

\* the outcome of the hook post of thread t
HookOutcome(t) == Calls(t, "hook")[1].outcome

\* C16: an owner-actionable event whose hook post succeeded or failed with a
\* ConnectionError does not raise, and the batches message_owner is called
\* with, made and still to come, are those of the pods of the event grouped
\* by owner: the same for both outcomes.
C16_ConnectionErrorCaught ==
    \A t \in Threads :
        (/\ OwnerActionable(t)
         /\ Calls(t, "hook") # <<>>
         /\ HookOutcome(t) \in {"ok", "ConnectionError"})
        => /\ pc[t] # "raised"
           /\ Handled(t) \o Pending(t)
                = IF bot_token THEN PodsByOwner(ev[t].pods) ELSE <<>>

\* a scale event of two owners whose hook post failed with a ConnectionError
\* has returned after a direct post to each owner
C16_Witness ==
    \E t \in Threads :
        /\ OwnerActionable(t)
        /\ Calls(t, "hook") # <<>>
        /\ HookOutcome(t) = "ConnectionError"
        /\ pc[t] = "returned"
        /\ Len(Calls(t, "direct")) = 2

\* thread t has made a direct post that failed
SomeSendFailed(t) == \E d \in Range(Calls(t, "direct")) : d.failed

\* C17: an event one of whose direct posts failed does not raise; the
\* batches handled and still to come stay those of all its owners, and when
\* it has returned every owner of the event has had its call of
\* message_owner, with a direct post for each call that missed the cache.
C17_FailureIsolatedPerOwner ==
    \A t \in Threads :
        SomeSendFailed(t) =>
            /\ pc[t] # "raised"
            /\ Handled(t) \o Pending(t) = PodsByOwner(ev[t].pods)
            /\ pc[t] = "returned" =>
                 \A owner \in EventOwners(t) :
                    \E r \in Range(Calls(t, "message_owner")) :
                       /\ r.owner = owner
                       /\ ~r.hit => \E d \in Range(Calls(t, "direct")) :
                                       d.key = r.key /\ d.channel = <<64>> \o owner

\* an event of two owners has returned: the direct post to the first owner
\* failed, the direct post to the second owner was made and succeeded
C17_Witness ==
    \E t \in Threads :
        /\ pc[t] = "returned"
        /\ Len(Calls(t, "direct")) = 2
        /\ Calls(t, "direct")[1].failed
        /\ ~Calls(t, "direct")[2].failed
        /\ Calls(t, "direct")[1].channel # Calls(t, "direct")[2].channel

\* the pods of the event of thread t that belong to the owner, in order
OwnPods(t, owner) == SelectSeq(ev[t].pods, LAMBDA pod : pod.owner = owner)

\* the direct posts of thread t addressed to the owner
PostsTo(t, owner) ==
    SelectSeq(Calls(t, "direct"), LAMBDA d : d.channel = <<64>> \o owner)

\* C18: an owner-actionable event handled with the hook and the bot token
\* set that has returned with none of its fingerprints found in the cache
\* has made one hook post and one direct post per owner of its pods and no
\* other: the post is addressed to the owner, names that owner's pods of
\* the event and is keyed over exactly those pods.
C18_OneSendPerOwner ==
    \A t \in Callers :
        (/\ OwnerActionable(t)
         /\ hook /\ bot_token
         /\ pc[t] = "returned"
         /\ \A r \in Range(Calls(t, "message_owner")) : ~r.hit)
        => /\ Len(Calls(t, "hook")) = 1
           /\ Len(Calls(t, "direct")) = Cardinality(EventOwners(t))
           /\ \A owner \in EventOwners(t) :
                /\ Len(PostsTo(t, owner)) = 1
                /\ PostsTo(t, owner)[1].key = _cache_key(owner, msg[t], OwnPods(t, owner))
                /\ PostsTo(t, owner)[1].attachments = AttachmentText(OwnPods(t, owner))

\* an event of two owners, one of them with two pods, and of a pod without
\* owner has returned from an empty cache: two direct posts, and the cache
\* and the history hold the two fingerprints and nothing else
C18_Witness ==
    \E t \in Callers :
        /\ OwnerActionable(t)
        /\ pc[t] = "returned"
        /\ Cardinality(EventOwners(t)) = 2
        /\ \E owner \in EventOwners(t) : Len(OwnPods(t, owner)) = 2
        /\ Len(Calls(t, "hook")) = 1
        /\ Len(Calls(t, "direct")) = 2
        /\ \A r \in Range(Calls(t, "message_owner")) : ~r.hit /\ ~r.expired
        /\ Len(used) = 2
        /\ Keys(cache) = {d.key : d \in Range(Calls(t, "direct"))}

\* the fingerprints the cache holds, each with its expiry time
Content(c) == {<<c[i].key, c[i].expires>> : i \in 1..Len(c)}

\* C19: only the store of a message_owner call that missed changes the
\* fingerprints the cache holds and their expiry times: a thread stands
\* before a send or a store only after a lookup that missed; a drain, an
\* event handled without the bot token and an event whose pods have no
\* owner never come to a lookup, a send or a store; and every step that is
\* not such a store, a lookup that hits among them, leaves the fingerprints
\* and their expiry times as they were.
C19_CacheFrame ==
    /\ [](\A t \in Threads :
            /\ pc[t] \in {"send", "store"}
               => /\ Calls(t, "message_owner") # <<>>
                  /\ ~Calls(t, "message_owner")[Len(Calls(t, "message_owner"))].hit
            /\ (ev[t].kind # "none"
                /\ (ev[t].kind = "drain" \/ ~bot_token \/ EventOwners(t) = {}))
               => pc[t] \in {"returned", "raised"})
    /\ [][(\A t \in Threads : ~StoreStep(t)) => Content(cache') = Content(cache)]_vars

\* a call has been suppressed by a hit and made no direct post; the entry
\* is in the cache with an expiry short of now + ttl, the one a store at
\* an earlier time gave it
C19_Witness ==
    \E t \in Threads : \E r \in Range(Calls(t, "message_owner")) :
        /\ r.hit
        /\ r.key \in Keys(cache)
        /\ Entry(cache, r.key).expires < now + ttl
        /\ Calls(t, "direct") = <<>>

\* 'ASG name[region] scaling up': the text of nothing but name and region
ScalingUpText(name, region) ==
    <<65, 83, 71, 32>> \o name \o <<91>> \o region
    \o <<93, 32, 115, 99, 97, 108, 105, 110, 103, 32, 117, 112>>

\* C20: every call of message_owner of a scale event carries the text made
\* of the name and the region of the ASG alone and is keyed over that text;
\* a call that finds its fingerprint stored less than ttl ago, by a scale
\* event of whatever units_requested, with fewer than maxsize other
\* fingerprints used since, is suppressed and makes no direct post; and a
\* scale event that returned with the hook set made its one hook post, with
\* the text that tells its own units_requested.
C20_ScaleKeyIgnoresUnits ==
    \A t \in Callers :
        ev[t].kind = "scale" =>
            /\ \A r \in Range(Calls(t, "message_owner")) :
                 /\ r.message = ScalingUpText(ev[t].asg.name, ev[t].asg.region)
                 /\ r.key = _cache_key(r.owner,
                                       ScalingUpText(ev[t].asg.name, ev[t].asg.region),
                                       r.pods)
                 /\ (r.recorded /\ r.others < maxsize)
                    => /\ r.hit
                       /\ \A d \in Range(Calls(t, "direct")) : d.key # r.key
            /\ (hook /\ pc[t] = "returned")
               => /\ Len(Calls(t, "hook")) = 1
                  /\ Calls(t, "hook")[1].text
                       = ScaleMessage(ev[t].asg, ev[t].units_requested, ev[t].pods)

\* a scale event has returned after its hook post and without a direct
\* post: its fingerprint had been stored by a scale event with another
\* units_requested
C20_Witness ==
    \E t \in Callers : \E r \in Range(Calls(t, "message_owner")) :
        /\ ev[t].kind = "scale"
        /\ pc[t] = "returned"
        /\ r.recorded /\ r.hit
        /\ r.units # 0
        /\ r.units # ev[t].units_requested
        /\ Len(Calls(t, "hook")) = 1
        /\ Calls(t, "direct") = <<>>

(***************************************************************************)
(* Properties of _generate_pod_string (checked under StringSpec).          *)
(***************************************************************************)
\* the names namespace/name of the first n pods, joined by ', '
Names(pods, n) == Join(<<44, 32>>, [i \in 1..n |-> PodName(pods[i])])

\* C11: a list of at most 5 pods is rendered as all its names joined by
\* ', '; a list of n > 5 pods as its first 4 names, ', and ', n - 4 and
\* ' others'; 5 pods give 5 names and 6 pods give 4 names and
\* ', and 2 others'.
C11_TruncatesAboveFive ==
    pods_string # NoString =>
        LET n == Len(pods_arg)
        IN  /\ n <= 5 => pods_string = Names(pods_arg, n)
            /\ n > 5 => pods_string = Names(pods_arg, 4) \o <<44, 32, 97, 110, 100, 32>>
                                          \o IntStr(n - 4)
                                          \o <<32, 111, 116, 104, 101, 114, 115>>
            /\ n = 6 => pods_string = Names(pods_arg, 4)
                                          \o <<44, 32, 97, 110, 100, 32, 50, 32, 111, 116,
                                               104, 101, 114, 115>>

\* a list of 6 pods that are not all the same has been rendered, shortened
C11_Witness ==
    /\ pods_string # NoString
    /\ Len(pods_arg) = 6
    /\ pods_arg[4] # pods_arg[5]
    /\ pods_string # Names(pods_arg, 6)
    /\ SubSeq(pods_string, 1, Len(Names(pods_arg, 4))) = Names(pods_arg, 4)

=============================================================================
